---- MODULE Spec2Model ----
(***************************************************************************)
(* Model of the SFFM backtest engine: the bar loop of run_backtest          *)
(* (backtest/engine.py), the position manager, the fill-price computation   *)
(* and the trade ledger.                                                    *)
(*                                                                          *)
(* Units.  Prices are integers counting 1e-6 price units (1.10055 is        *)
(* 1100550), money is an integer counting 1e-3 USD (2.50 USD is 2500).      *)
(* With these units every value the engine computes from the configured     *)
(* constants is an integer; binary floating-point representation error of   *)
(* the Python floats is not modelled.                                       *)
(*                                                                          *)
(* Bars are numbered from 0 as in the loop variable i; the timestamp of a   *)
(* bar is represented by its number (timestamps are strictly increasing).   *)
(* An Optional value is a sequence of length 0 (None) or 1.                 *)
(***************************************************************************)
EXTENDS Integers, Sequences, FiniteSets, TLC

\* ------------------------------------------------------------------------
\* Bounds of the model
\* ------------------------------------------------------------------------
MaxBars == 4

\* Longest first run after which later calls of run_backtest are made and
\* compared with it.
MaxLaterBars == 3

\* Sub-tick displacement of an input open price (0.00003).
OffTick == 30

\* Opens of the worked scenario, repeated cyclically: 1.1000 1.1010 1.1005 1.0995
ScenarioOpens == <<1100000, 1101000, 1100500, 1099500>>

\* The open of bar i is the scenario open or that price displaced off the tick grid.
OpenChoices(i) == {ScenarioOpens[(i % 4) + 1], ScenarioOpens[(i % 4) + 1] + OffTick}

SignalValues == {-1, 0, 1}

\* Shapes of a bar's candle: shape k puts high, low and close k, 2k and 3k
\* ticks away from the open.  The first run reads candles of shape 1.
CandleShapes == {1, 2}

\* Number of ticks spanned by the prices passed to direct calls of the
\* execution and ledger functions.
MaxTicks == 3

\* ------------------------------------------------------------------------
\* config/constants.py, config/settings.py
\* ------------------------------------------------------------------------
TICK_SIZE == 50

TICK_VALUE == 6250

SLIPPAGE_TICKS == 1

COMMISSION_PER_SIDE == 2500

\* settings.py defines neither of the two roll settings the engine reads
\* (S.ROLL_FREEZE_BARS_POST at engine.py:156, S.ROLL_CLOSE_SLIPPAGE_TICKS at
\* execution_engine.py:71): with the module as shipped either lookup raises
\* AttributeError.  The values below stand for a configuration that supplies
\* them; the settings a run reads are an input of the run (variable settings).
ROLL_FREEZE_BARS_POST == 1

ROLL_CLOSE_SLIPPAGE_TICKS == 2

\* The attributes of the settings module as shipped.
ShippedSettings == [n \in {"SLIPPAGE_TICKS", "COMMISSION_PER_SIDE"} |->
                      IF n = "SLIPPAGE_TICKS" THEN SLIPPAGE_TICKS ELSE COMMISSION_PER_SIDE]

\* The settings module with the two roll settings supplied as well.
CompleteSettings == [n \in {"SLIPPAGE_TICKS", "COMMISSION_PER_SIDE",
                            "ROLL_FREEZE_BARS_POST", "ROLL_CLOSE_SLIPPAGE_TICKS"} |->
                      CASE n = "SLIPPAGE_TICKS" -> SLIPPAGE_TICKS
                        [] n = "COMMISSION_PER_SIDE" -> COMMISSION_PER_SIDE
                        [] n = "ROLL_FREEZE_BARS_POST" -> ROLL_FREEZE_BARS_POST
                        [] OTHER -> ROLL_CLOSE_SLIPPAGE_TICKS]

\* Attribute lookup S.<name>: raises AttributeError when the name is not defined.
HasSetting(S, name) == name \in DOMAIN S

\* ------------------------------------------------------------------------
\* Optional values
\* ------------------------------------------------------------------------
None == << >>

Some(x) == <<x>>

IsNone(o) == Len(o) = 0

Get(o) == o[1]

\* ------------------------------------------------------------------------
\* execution/position_manager.py
\* ------------------------------------------------------------------------
FLAT == 0

LONG == 1

SHORT == -1

Direction == {FLAT, LONG, SHORT}

NoAction == [close_existing |-> FALSE, open_new |-> FALSE, new_direction |-> FLAT]

\* Variant of is_flat that reports no position as flat.
is_flat_Never(current_direction) == FALSE

\* Variant of is_flat that reports every position as flat.
is_flat_Always(current_direction) == TRUE

\* PositionManager.is_flat
is_flat(current_direction) == current_direction = FLAT

\* PositionManager.on_open: the fields after opening.
on_open(direction, bar_index) ==
    [current_direction |-> direction, entry_bar_index |-> bar_index]

\* PositionManager.on_close: the fields after closing.
on_close == [current_direction |-> FLAT, entry_bar_index |-> -1]

\* Variant of evaluate_signal that treats a same-direction signal as a fresh entry.
evaluate_signal_Reenter(current_direction, signal) ==
    IF signal = 0 THEN NoAction
    ELSE IF current_direction = FLAT \/ current_direction = signal
         THEN [close_existing |-> FALSE, open_new |-> TRUE, new_direction |-> signal]
         ELSE [close_existing |-> TRUE, open_new |-> TRUE, new_direction |-> signal]

\* Variant of evaluate_signal whose reversal closes without opening.
evaluate_signal_CloseOnly(current_direction, signal) ==
    IF signal = 0 THEN NoAction
    ELSE IF current_direction = signal THEN NoAction
    ELSE IF current_direction = FLAT
         THEN [close_existing |-> FALSE, open_new |-> TRUE, new_direction |-> signal]
         ELSE [close_existing |-> TRUE, open_new |-> FALSE, new_direction |-> signal]

\* Variant of evaluate_signal in which signal 0 closes an open position.
evaluate_signal_ExitOnZero(current_direction, signal) ==
    IF signal = 0
    THEN [close_existing |-> current_direction # FLAT, open_new |-> FALSE,
          new_direction |-> FLAT]
    ELSE IF current_direction = signal THEN NoAction
    ELSE IF current_direction = FLAT
         THEN [close_existing |-> FALSE, open_new |-> TRUE, new_direction |-> signal]
         ELSE [close_existing |-> TRUE, open_new |-> TRUE, new_direction |-> signal]

\* PositionManager.evaluate_signal
evaluate_signal(current_direction, signal) ==
    IF signal = 0 THEN NoAction
    ELSE IF current_direction = signal THEN NoAction
    ELSE IF is_flat(current_direction)
         THEN [close_existing |-> FALSE, open_new |-> TRUE, new_direction |-> signal]
         ELSE [close_existing |-> TRUE, open_new |-> TRUE, new_direction |-> signal]

\* ------------------------------------------------------------------------
\* execution/execution_engine.py
\* ------------------------------------------------------------------------
\* The slippage tick count of a fill; None when the lookup raises.
SlippageTicks(S, is_roll_close) ==
    IF is_roll_close
    THEN IF HasSetting(S, "ROLL_CLOSE_SLIPPAGE_TICKS")
         THEN Some(S["ROLL_CLOSE_SLIPPAGE_TICKS"]) ELSE None
    ELSE Some(S["SLIPPAGE_TICKS"])

\* Variant of compute_fill_price that slips in the favourable direction.
compute_fill_price_Favourable(S, direction, bar_open, is_roll_close) ==
    IF direction = FLAT THEN None
    ELSE IF is_roll_close /\ ~HasSetting(S, "ROLL_CLOSE_SLIPPAGE_TICKS") THEN None
    ELSE LET ticks == IF is_roll_close THEN S["ROLL_CLOSE_SLIPPAGE_TICKS"]
                      ELSE S["SLIPPAGE_TICKS"]
         IN  IF direction = LONG
             THEN Some(bar_open - ticks * TICK_SIZE)
             ELSE Some(bar_open + ticks * TICK_SIZE)

\* Variant of compute_fill_price without the check for FLAT: a FLAT order
\* falls through to the branch of a SHORT.
compute_fill_price_NoFlatCheck(S, direction, bar_open, is_roll_close) ==
    IF IsNone(SlippageTicks(S, is_roll_close)) THEN None
    ELSE LET slippage_amount == Get(SlippageTicks(S, is_roll_close)) * TICK_SIZE
         IN  IF direction = LONG
             THEN Some(bar_open + slippage_amount)
             ELSE Some(bar_open - slippage_amount)

\* compute_fill_price: Some(price), or None when it raises.
compute_fill_price(S, direction, bar_open, is_roll_close) ==
    IF direction = FLAT THEN None
    ELSE IF IsNone(SlippageTicks(S, is_roll_close)) THEN None
    ELSE LET slippage_amount == Get(SlippageTicks(S, is_roll_close)) * TICK_SIZE
         IN  IF direction = LONG
             THEN Some(bar_open + slippage_amount)
             ELSE Some(bar_open - slippage_amount)

\* Variant of PyRound that truncates the quotient.
PyRound_Truncate(x, d) == x \div d

\* Python round() of the quotient x / d: nearest integer, ties to even.
PyRound(x, d) ==
    LET q == x \div d
        r == x % d
    IN  IF 2 * r < d THEN q
        ELSE IF 2 * r > d THEN q + 1
        ELSE IF q % 2 = 0 THEN q ELSE q + 1

round_to_tick(price) == PyRound(price, TICK_SIZE) * TICK_SIZE

\* ------------------------------------------------------------------------
\* backtest/ledger.py
\* ------------------------------------------------------------------------
\* Variant of build_trade that also charges slippage as a cost
\* (the total_cost formula of the module docstring).
build_trade_SlippageCost(S, trade_id, direction, entry_bar, exit_bar, entry_price, exit_price) ==
    LET price_to_usd == TICK_VALUE \div TICK_SIZE
        gross_pnl == direction * (exit_price - entry_price) * price_to_usd
        commission == S["COMMISSION_PER_SIDE"] * 2
        net_pnl == gross_pnl - (commission + S["SLIPPAGE_TICKS"] * 2 * TICK_VALUE)
    IN  [trade_id |-> trade_id, direction |-> direction,
         entry_bar |-> entry_bar, exit_bar |-> exit_bar,
         entry_price |-> entry_price, exit_price |-> exit_price,
         gross_pnl |-> gross_pnl, commission |-> commission,
         net_pnl |-> net_pnl, is_winner |-> (net_pnl > 0)]

\* Variant of build_trade that drops the direction sign from the gross PnL.
build_trade_Unsigned(S, trade_id, direction, entry_bar, exit_bar, entry_price, exit_price) ==
    LET price_to_usd == TICK_VALUE \div TICK_SIZE
        gross_pnl == (exit_price - entry_price) * price_to_usd
        commission == S["COMMISSION_PER_SIDE"] * 2
        net_pnl == gross_pnl - commission
    IN  [trade_id |-> trade_id, direction |-> direction,
         entry_bar |-> entry_bar, exit_bar |-> exit_bar,
         entry_price |-> entry_price, exit_price |-> exit_price,
         gross_pnl |-> gross_pnl, commission |-> commission,
         net_pnl |-> net_pnl, is_winner |-> (net_pnl > 0)]

\* Variant of build_trade that stores the two bars in each other's field.
build_trade_BarsSwapped(S, trade_id, direction, entry_bar, exit_bar, entry_price, exit_price) ==
    LET price_to_usd == TICK_VALUE \div TICK_SIZE
        gross_pnl == direction * (exit_price - entry_price) * price_to_usd
        commission == S["COMMISSION_PER_SIDE"] * 2
        net_pnl == gross_pnl - commission
    IN  [trade_id |-> trade_id, direction |-> direction,
         entry_bar |-> exit_bar, exit_bar |-> entry_bar,
         entry_price |-> entry_price, exit_price |-> exit_price,
         gross_pnl |-> gross_pnl, commission |-> commission,
         net_pnl |-> net_pnl, is_winner |-> (net_pnl > 0)]

build_trade(S, trade_id, direction, entry_bar, exit_bar, entry_price, exit_price) ==
    LET price_to_usd == TICK_VALUE \div TICK_SIZE
        gross_pnl == direction * (exit_price - entry_price) * price_to_usd
        commission == S["COMMISSION_PER_SIDE"] * 2
        net_pnl == gross_pnl - commission
    IN  [trade_id |-> trade_id, direction |-> direction,
         entry_bar |-> entry_bar, exit_bar |-> exit_bar,
         entry_price |-> entry_price, exit_price |-> exit_price,
         gross_pnl |-> gross_pnl, commission |-> commission,
         net_pnl |-> net_pnl, is_winner |-> (net_pnl > 0)]

\* ------------------------------------------------------------------------
\* backtest/engine.py : state
\* ------------------------------------------------------------------------
VARIABLES
    settings,                \* the settings module S read by the run
    bars,                    \* rows of df_m5 read so far: open, contains_roll, high, low, close
    signals,                 \* signal values of the bars read so far
    pc,                      \* "execute" | "evaluate" | "done" | "failed"
    current_direction,       \* state.position.current_direction
    entry_bar_index,         \* state.position.entry_bar_index
    trades,                  \* state.ledger.trades
    next_id,                 \* state.ledger._next_id
    pending,                 \* state.pending (Optional PendingOrder)
    entry_price,             \* state.entry_price (Optional)
    entry_bar,               \* state.entry_bar (Optional)
    roll_freeze_remaining,   \* state.roll_freeze_remaining
    action,                  \* the Action returned by the last evaluate_signal call
    fills,                   \* audit log of executed order legs
    second,                  \* Optional: what later calls of run_backtest returned
    probe                    \* Optional: a direct call of a function and its result

vars == <<settings, bars, signals, pc, current_direction, entry_bar_index, trades,
          next_id, pending, entry_price, entry_bar, roll_freeze_remaining, action, fills,
          second, probe>>

\* Number of the bar being processed (loop variable i).
CurBar == Len(bars) - 1

BarOpen(i) == bars[i + 1].open

IsRollBar(i) == bars[i + 1].contains_roll

SignalAt(i) == signals[i + 1]

\* Prices passed to direct calls: a grid of MaxTicks ticks above the first
\* scenario open, and one price off the grid.
CallPrices ==
    {ScenarioOpens[1] + k * TICK_SIZE : k \in 0..MaxTicks} \cup {ScenarioOpens[1] + OffTick}

\* A row of df_m5: the open, the roll flag and the columns the engine never reads.
Candle(open, contains_roll, shape) ==
    [open |-> open, contains_roll |-> contains_roll,
     high |-> open + shape * TICK_SIZE, low |-> open - 2 * shape * TICK_SIZE,
     close |-> open + 3 * shape * TICK_SIZE]

\* Variant of bar_open_of that reads the bar's close.
bar_open_of_Close(bar) == bar.close

\* bar_open = bar[C.COL_OPEN]
bar_open_of(bar) == bar.open

\* Variant of ShouldExecute that skips the fill step on a roll bar.
ShouldExecute_NotOnRollBar(order, bar) == ~IsNone(order) /\ ~bar.contains_roll

\* STEP 1 guard: if state.pending is not None
ShouldExecute(order, bar) == ~IsNone(order)

\* Variant of NextId that forgets the increment.
NextId_Stuck(id) == id

\* Ledger.record: self._next_id += 1
NextId(id) == id + 1

\* Variant of LedgerAppend that inserts the new trade at the front.
LedgerAppend_AtFront(ledger, trade) == <<trade>> \o ledger

\* Ledger.record: self.trades.append(trade)
LedgerAppend(ledger, trade) == Append(ledger, trade)

\* Variant of InFreeze for which no bar is frozen.
InFreeze_Never(remaining) == FALSE

\* STEP 3 guard: if state.roll_freeze_remaining > 0
InFreeze(remaining) == remaining > 0

\* Variant of FreezeDecrement that leaves the counter as it is.
FreezeDecrement_Stuck(remaining) == remaining

\* STEP 3: state.roll_freeze_remaining -= 1
FreezeDecrement(remaining) == remaining - 1

PendingOrder(close_direction, open_direction, signal_bar, exit_reason) ==
    [close_direction |-> close_direction, open_direction |-> open_direction,
     signal_bar |-> signal_bar, exit_reason |-> exit_reason]

\* Variant of RollOrder that queues an order without legs.
RollOrder_NoLegs(direction, bar_ts) == PendingOrder(None, None, bar_ts, "roll")

\* Variant of RollOrder that reverses the position instead of closing it.
RollOrder_Reverse(direction, bar_ts) ==
    PendingOrder(Some(direction), Some(-direction), bar_ts, "roll")

\* Variant of RollOrder that re-enters the held direction after the close.
RollOrder_Reenter(direction, bar_ts) ==
    PendingOrder(Some(direction), Some(direction), bar_ts, "roll")

\* STEP 2: the close-only order queued on a roll bar for the held direction.
RollOrder(direction, bar_ts) == PendingOrder(Some(direction), None, bar_ts, "roll")

Init ==
    /\ settings \in {ShippedSettings, CompleteSettings}
    /\ bars = << >>
    /\ signals = << >>
    /\ pc = "execute"
    /\ current_direction = FLAT
    /\ entry_bar_index = -1
    /\ trades = << >>
    /\ next_id = 1
    /\ pending = None
    /\ entry_price = None
    /\ entry_bar = None
    /\ roll_freeze_remaining = 0
    /\ action = NoAction
    /\ fills = << >>
    /\ second = None
    /\ probe = None

\* ------------------------------------------------------------------------
\* backtest/engine.py : _execute_pending
\* ------------------------------------------------------------------------
\* Variant of CloseFill that prices the close as an order in the held
\* direction.
CloseFill_HeldDirection(S, p, bar_open) ==
    compute_fill_price(S, Get(p.close_direction), bar_open, p.exit_reason = "roll")

\* Variant of CloseFill that never asks for the roll-close slippage.
CloseFill_StandardSlippage(S, p, bar_open) ==
    compute_fill_price(S, -Get(p.close_direction), bar_open, FALSE)

\* The fill of the close leg of order p at bar_open; None when it raises.
CloseFill(S, p, bar_open) ==
    compute_fill_price(S, -Get(p.close_direction), bar_open, p.exit_reason = "roll")

\* The close leg runs to completion: the fill is computed and both asserts hold.
CloseLegOK(S, p, bar_open, e_price, e_bar) ==
    /\ ~IsNone(CloseFill(S, p, bar_open))
    /\ ~IsNone(e_price)
    /\ ~IsNone(e_bar)

FillRecord(bar, leg, direction, price, reason, signal_bar) ==
    [bar |-> bar, leg |-> leg, direction |-> direction, price |-> price,
     reason |-> reason, signal_bar |-> signal_bar]

\* Variant of the final assignment that leaves the executed order in the slot.
PendingAfterExecute_Kept(order) == order

\* The pending slot once both legs have run (state.pending = None).
PendingAfterExecute(order) == None

\* Variant of ExecutePending that runs the open leg before the close leg.
ExecutePending_OpenFirst(i, bar_open) ==
    LET p == Get(pending)
        hasClose == ~IsNone(p.close_direction)
        hasOpen == ~IsNone(p.open_direction)
        new_entry_price == round_to_tick(Get(compute_fill_price(settings,
                                                 Get(p.open_direction), bar_open, FALSE)))
        eprice1 == IF hasOpen THEN Some(new_entry_price) ELSE entry_price
        ebar1 == IF hasOpen THEN Some(i) ELSE entry_bar
        fills1 == IF hasOpen
                  THEN Append(fills, FillRecord(i, "open", Get(p.open_direction),
                                                new_entry_price, p.exit_reason,
                                                Some(p.signal_bar)))
                  ELSE fills
        exit_price == round_to_tick(Get(CloseFill(settings, p, bar_open)))
    IN  /\ trades' = IF hasClose
                    THEN LedgerAppend(trades, build_trade(settings, next_id,
                                                    Get(p.close_direction), Get(ebar1), i,
                                                    Get(eprice1), exit_price))
                    ELSE trades
        /\ next_id' = IF hasClose THEN NextId(next_id) ELSE next_id
        /\ current_direction' = IF hasClose THEN on_close.current_direction
                                ELSE on_open(Get(p.open_direction), -1).current_direction
        /\ entry_bar_index' = IF hasClose THEN on_close.entry_bar_index
                              ELSE on_open(Get(p.open_direction), -1).entry_bar_index
        /\ entry_price' = IF hasClose THEN None ELSE eprice1
        /\ entry_bar' = IF hasClose THEN None ELSE ebar1
        /\ fills' = IF hasClose
                    THEN Append(fills1, FillRecord(i, "close", -Get(p.close_direction),
                                                   exit_price, p.exit_reason,
                                                   Some(p.signal_bar)))
                    ELSE fills1
        /\ pending' = PendingAfterExecute(pending)
        /\ pc' = "evaluate"

\* _execute_pending(state, bar_ts, bar_open) for bar number i.
\* Sets pc to "failed" when an exception leaves the function, keeping the
\* mutations made before the raising statement.
ExecutePending(i, bar_open) ==
    LET p == Get(pending)
        hasClose == ~IsNone(p.close_direction)
        hasOpen == ~IsNone(p.open_direction)
        closeOK == hasClose => CloseLegOK(settings, p, bar_open, entry_price, entry_bar)
        closed == hasClose /\ closeOK
        exit_price == round_to_tick(Get(CloseFill(settings, p, bar_open)))
        trade == build_trade(settings, next_id, Get(p.close_direction),
                             Get(entry_bar), i, Get(entry_price), exit_price)
        \* state after the close leg
        trades1 == IF closed THEN LedgerAppend(trades, trade) ELSE trades
        next_id1 == IF closed THEN NextId(next_id) ELSE next_id
        dir1 == IF closed THEN on_close.current_direction ELSE current_direction
        idx1 == IF closed THEN on_close.entry_bar_index ELSE entry_bar_index
        eprice1 == IF closed THEN None ELSE entry_price
        ebar1 == IF closed THEN None ELSE entry_bar
        fills1 == IF closed
                  THEN Append(fills, FillRecord(i, "close", -Get(p.close_direction),
                                                exit_price, p.exit_reason,
                                                Some(p.signal_bar)))
                  ELSE fills
        \* the open leg
        openFill == compute_fill_price(settings, Get(p.open_direction), bar_open, FALSE)
        openOK == hasOpen => ~IsNone(openFill)
        opened == closeOK /\ hasOpen /\ openOK
        new_entry_price == round_to_tick(Get(openFill))
        position2 == on_open(Get(p.open_direction), -1)
    IN  /\ trades' = trades1
        /\ next_id' = next_id1
        /\ current_direction' = IF opened THEN position2.current_direction ELSE dir1
        /\ entry_bar_index' = IF opened THEN position2.entry_bar_index ELSE idx1
        /\ entry_price' = IF opened THEN Some(new_entry_price) ELSE eprice1
        /\ entry_bar' = IF opened THEN Some(i) ELSE ebar1
        /\ fills' = IF opened
                    THEN Append(fills1, FillRecord(i, "open", Get(p.open_direction),
                                                   new_entry_price, p.exit_reason,
                                                   Some(p.signal_bar)))
                    ELSE fills1
        /\ pending' = IF closeOK /\ openOK THEN PendingAfterExecute(pending) ELSE pending
        /\ pc' = IF closeOK /\ openOK THEN "evaluate" ELSE "failed"

\* ------------------------------------------------------------------------
\* backtest/engine.py : run_backtest, one loop iteration in two steps
\* ------------------------------------------------------------------------
\* Loop head and STEP 1: read bar i, execute the pending order at its open.
ExecuteStep ==
    /\ pc = "execute"
    /\ Len(bars) < MaxBars
    /\ \E bar_open \in OpenChoices(Len(bars)), is_roll \in BOOLEAN, sig \in SignalValues :
          /\ bars' = Append(bars, Candle(bar_open, is_roll, 1))
          /\ signals' = Append(signals, sig)
          /\ IF ShouldExecute(pending, Candle(bar_open, is_roll, 1))
             THEN ExecutePending(Len(bars), bar_open_of(Candle(bar_open, is_roll, 1)))
             ELSE /\ pc' = "evaluate"
                  /\ UNCHANGED <<current_direction, entry_bar_index, trades, next_id,
                                 pending, entry_price, entry_bar, fills>>
    /\ UNCHANGED <<settings, roll_freeze_remaining, action, second, probe>>

\* Variant of RollBar that adds the freeze length to the bars still to run.
RollBar_AddsFreeze ==
    /\ pc = "evaluate"
    /\ IsRollBar(CurBar)
    /\ pending' = IF ~is_flat(current_direction)
                  THEN Some(RollOrder(current_direction, CurBar))
                  ELSE pending
    /\ IF HasSetting(settings, "ROLL_FREEZE_BARS_POST")
       THEN /\ roll_freeze_remaining' = roll_freeze_remaining
                                            + settings["ROLL_FREEZE_BARS_POST"]
            /\ pc' = "execute"
       ELSE /\ roll_freeze_remaining' = roll_freeze_remaining
            /\ pc' = "failed"
    /\ UNCHANGED <<settings, bars, signals, current_direction, entry_bar_index, trades,
                   next_id, entry_price, entry_bar, action, fills, second, probe>>

\* STEP 2: roll bar.  The pending order is assigned before the settings lookup.
RollBar ==
    /\ pc = "evaluate"
    /\ IsRollBar(CurBar)
    /\ pending' = IF ~is_flat(current_direction)
                  THEN Some(RollOrder(current_direction, CurBar))
                  ELSE pending
    /\ IF HasSetting(settings, "ROLL_FREEZE_BARS_POST")
       THEN /\ roll_freeze_remaining' = settings["ROLL_FREEZE_BARS_POST"]
            /\ pc' = "execute"
       ELSE /\ roll_freeze_remaining' = roll_freeze_remaining
            /\ pc' = "failed"
    /\ UNCHANGED <<settings, bars, signals, current_direction, entry_bar_index, trades,
                   next_id, entry_price, entry_bar, action, fills, second, probe>>

\* STEP 3: freeze window.
FreezeBar ==
    /\ pc = "evaluate"
    /\ ~IsRollBar(CurBar)
    /\ InFreeze(roll_freeze_remaining)
    /\ roll_freeze_remaining' = FreezeDecrement(roll_freeze_remaining)
    /\ pc' = "execute"
    /\ UNCHANGED <<settings, bars, signals, current_direction, entry_bar_index, trades,
                   next_id, pending, entry_price, entry_bar, action, fills, second, probe>>

\* Variant of SignalOrder whose close leg names the direction opposite to
\* the held one.
SignalOrder_ClosesOpposite(act, direction, bar_ts) ==
    IF act.close_existing \/ act.open_new
    THEN Some(PendingOrder(IF act.close_existing THEN Some(-direction) ELSE None,
                           IF act.open_new THEN Some(act.new_direction) ELSE None,
                           bar_ts, "signal"))
    ELSE None

\* Variant of SignalOrder without the test for an empty action: it queues
\* an order with no legs.
SignalOrder_AlwaysQueues(act, direction, bar_ts) ==
    Some(PendingOrder(IF act.close_existing THEN Some(direction) ELSE None,
                      IF act.open_new THEN Some(act.new_direction) ELSE None,
                      bar_ts, "signal"))

\* The order queued by STEP 4 for an action, None when the action is empty.
SignalOrder(act, direction, bar_ts) ==
    IF act.close_existing \/ act.open_new
    THEN Some(PendingOrder(IF act.close_existing THEN Some(direction) ELSE None,
                           IF act.open_new THEN Some(act.new_direction) ELSE None,
                           bar_ts, "signal"))
    ELSE None

\* Variant of SignalBar that switches the position at once when the action
\* opens from FLAT, without an order being filled.
SignalBar_OpensAtOnce ==
    /\ pc = "evaluate"
    /\ ~IsRollBar(CurBar)
    /\ ~InFreeze(roll_freeze_remaining)
    /\ action' = evaluate_signal(current_direction, SignalAt(CurBar))
    /\ pending' = SignalOrder(action', current_direction, CurBar)
    /\ pc' = "execute"
    /\ current_direction' = IF action'.open_new /\ ~action'.close_existing
                            THEN action'.new_direction
                            ELSE current_direction
    /\ UNCHANGED <<settings, bars, signals, entry_bar_index, trades,
                   next_id, entry_price, entry_bar, roll_freeze_remaining, fills,
                   second, probe>>

\* STEP 4: normal signal evaluation.
SignalBar ==
    /\ pc = "evaluate"
    /\ ~IsRollBar(CurBar)
    /\ ~InFreeze(roll_freeze_remaining)
    /\ action' = evaluate_signal(current_direction, SignalAt(CurBar))
    /\ pending' = SignalOrder(action', current_direction, CurBar)
    /\ pc' = "execute"
    /\ UNCHANGED <<settings, bars, signals, current_direction, entry_bar_index, trades,
                   next_id, entry_price, entry_bar, roll_freeze_remaining, fills,
                   second, probe>>

\* ------------------------------------------------------------------------
\* backtest/engine.py : _force_close_at_end
\* ------------------------------------------------------------------------
\* Variant of EndFill that prices the close with the roll-close slippage.
EndFill_RollSlippage(S, direction, bar_open) ==
    compute_fill_price(S, -direction, bar_open, TRUE)

\* Variant of EndFill that prices the close as an order in the held direction.
EndFill_SameDirection(S, direction, bar_open) ==
    compute_fill_price(S, direction, bar_open, FALSE)

EndFill(S, direction, bar_open) == compute_fill_price(S, -direction, bar_open, FALSE)

\* The loop is exhausted: force-close at the last bar's open and return.
EndOfData ==
    /\ pc = "execute"
    /\ IF is_flat(current_direction)
       THEN /\ pc' = "done"
            /\ UNCHANGED <<current_direction, entry_bar_index, trades, next_id, fills>>
       ELSE LET bar_ts == CurBar
                fill == EndFill(settings, current_direction, BarOpen(CurBar))
                ok == ~IsNone(fill) /\ ~IsNone(entry_price) /\ ~IsNone(entry_bar)
                exit_price == round_to_tick(Get(fill))
            IN  IF ok
                THEN /\ trades' = LedgerAppend(trades,
                                     build_trade(settings, next_id, current_direction,
                                                 Get(entry_bar), bar_ts,
                                                 Get(entry_price), exit_price))
                     /\ next_id' = NextId(next_id)
                     /\ current_direction' = on_close.current_direction
                     /\ entry_bar_index' = on_close.entry_bar_index
                     /\ fills' = Append(fills, FillRecord(bar_ts, "close", -current_direction,
                                                          exit_price, "end", None))
                     /\ pc' = "done"
                ELSE /\ pc' = "failed"
                     /\ UNCHANGED <<current_direction, entry_bar_index, trades, next_id,
                                    fills>>
    /\ UNCHANGED <<settings, bars, signals, pending, entry_price, entry_bar,
                   roll_freeze_remaining, action, second, probe>>

\* ------------------------------------------------------------------------
\* backtest/engine.py : run_backtest as a function of its arguments, used for
\* a later call in the same process.  One value of type BacktestState plus
\* pc, which is "failed" once an exception has left the function.
\* ------------------------------------------------------------------------
\* The state of the run in progress, as one value.
State ==
    [pc |-> pc, current_direction |-> current_direction,
     entry_bar_index |-> entry_bar_index, trades |-> trades, next_id |-> next_id,
     pending |-> pending, entry_price |-> entry_price, entry_bar |-> entry_bar,
     roll_freeze_remaining |-> roll_freeze_remaining]

\* Variant of BacktestState whose ledger is shared with the earlier run.
BacktestState_SharedLedger(earlier) ==
    [pc |-> "execute", current_direction |-> FLAT, entry_bar_index |-> -1,
     trades |-> earlier.trades, next_id |-> earlier.next_id, pending |-> None,
     entry_price |-> None, entry_bar |-> None, roll_freeze_remaining |-> 0]

\* state = BacktestState(): every field comes from its default or default
\* factory, whatever an earlier run left behind.
BacktestState(earlier) ==
    [pc |-> "execute", current_direction |-> FLAT, entry_bar_index |-> -1,
     trades |-> << >>, next_id |-> 1, pending |-> None,
     entry_price |-> None, entry_bar |-> None, roll_freeze_remaining |-> 0]

\* Variant of execute_pending that calls on_close before it checks that an
\* entry is stored.
execute_pending_CloseBeforeCheck(st, S, i, bar_open) ==
    LET p == Get(st.pending)
        hasClose == ~IsNone(p.close_direction)
        hasOpen == ~IsNone(p.open_direction)
        closeOK == hasClose => CloseLegOK(S, p, bar_open, st.entry_price, st.entry_bar)
        closed == hasClose /\ closeOK
        exit_price == round_to_tick(Get(CloseFill(S, p, bar_open)))
        st1 == IF closed
               THEN [st EXCEPT !.trades = LedgerAppend(@, build_trade(S, st.next_id,
                                                     Get(p.close_direction),
                                                     Get(st.entry_bar), i,
                                                     Get(st.entry_price), exit_price)),
                               !.next_id = NextId(@),
                               !.current_direction = on_close.current_direction,
                               !.entry_bar_index = on_close.entry_bar_index,
                               !.entry_price = None,
                               !.entry_bar = None]
               ELSE IF hasClose
               THEN [st EXCEPT !.current_direction = on_close.current_direction,
                               !.entry_bar_index = on_close.entry_bar_index]
               ELSE st
        openFill == compute_fill_price(S, Get(p.open_direction), bar_open, FALSE)
        openOK == hasOpen => ~IsNone(openFill)
        opened == closeOK /\ hasOpen /\ openOK
        position2 == on_open(Get(p.open_direction), -1)
        st2 == IF opened
               THEN [st1 EXCEPT !.current_direction = position2.current_direction,
                                !.entry_bar_index = position2.entry_bar_index,
                                !.entry_price = Some(round_to_tick(Get(openFill))),
                                !.entry_bar = Some(i)]
               ELSE st1
    IN  IF closeOK /\ openOK
        THEN [st2 EXCEPT !.pending = PendingAfterExecute(@), !.pc = "evaluate"]
        ELSE [st2 EXCEPT !.pc = "failed"]

\* _execute_pending on a state value.
execute_pending(st, S, i, bar_open) ==
    LET p == Get(st.pending)
        hasClose == ~IsNone(p.close_direction)
        hasOpen == ~IsNone(p.open_direction)
        closeOK == hasClose => CloseLegOK(S, p, bar_open, st.entry_price, st.entry_bar)
        closed == hasClose /\ closeOK
        exit_price == round_to_tick(Get(CloseFill(S, p, bar_open)))
        st1 == IF closed
               THEN [st EXCEPT !.trades = LedgerAppend(@, build_trade(S, st.next_id,
                                                     Get(p.close_direction),
                                                     Get(st.entry_bar), i,
                                                     Get(st.entry_price), exit_price)),
                               !.next_id = NextId(@),
                               !.current_direction = on_close.current_direction,
                               !.entry_bar_index = on_close.entry_bar_index,
                               !.entry_price = None,
                               !.entry_bar = None]
               ELSE st
        openFill == compute_fill_price(S, Get(p.open_direction), bar_open, FALSE)
        openOK == hasOpen => ~IsNone(openFill)
        opened == closeOK /\ hasOpen /\ openOK
        position2 == on_open(Get(p.open_direction), -1)
        st2 == IF opened
               THEN [st1 EXCEPT !.current_direction = position2.current_direction,
                                !.entry_bar_index = position2.entry_bar_index,
                                !.entry_price = Some(round_to_tick(Get(openFill))),
                                !.entry_bar = Some(i)]
               ELSE st1
    IN  IF closeOK /\ openOK
        THEN [st2 EXCEPT !.pending = PendingAfterExecute(@), !.pc = "evaluate"]
        ELSE [st2 EXCEPT !.pc = "failed"]

\* One iteration of the bar loop (STEP 1 to STEP 4) for bar number i.
loop_iteration(st, S, bar, sig, i) ==
    LET s1 == IF ShouldExecute(st.pending, bar)
              THEN execute_pending(st, S, i, bar_open_of(bar))
              ELSE [st EXCEPT !.pc = "evaluate"]
        s2 == IF ~is_flat(s1.current_direction)
              THEN [s1 EXCEPT !.pending = Some(RollOrder(s1.current_direction, i))]
              ELSE s1
    IN  IF s1.pc = "failed" THEN s1
        ELSE IF bar.contains_roll
        THEN IF HasSetting(S, "ROLL_FREEZE_BARS_POST")
             THEN [s2 EXCEPT !.roll_freeze_remaining = S["ROLL_FREEZE_BARS_POST"],
                             !.pc = "execute"]
             ELSE [s2 EXCEPT !.pc = "failed"]
        ELSE IF InFreeze(s1.roll_freeze_remaining)
        THEN [s1 EXCEPT !.roll_freeze_remaining = FreezeDecrement(@), !.pc = "execute"]
        ELSE [s1 EXCEPT !.pending = SignalOrder(evaluate_signal(s1.current_direction, sig),
                                                s1.current_direction, i),
                        !.pc = "execute"]

\* for i in range(n_bars), from bar number i on.
RECURSIVE bar_loop(_, _, _, _, _)
bar_loop(st, S, df_m5, sigs, i) ==
    IF i >= Len(df_m5) \/ st.pc = "failed"
    THEN st
    ELSE bar_loop(loop_iteration(st, S, df_m5[i + 1], sigs[i + 1], i), S, df_m5, sigs, i + 1)

\* Variant of force_close_at_end that first fills the order left in the
\* pending slot at the final bar's open.
force_close_at_end_FillsPending(st, S, df_m5) ==
    LET s1 == IF IsNone(st.pending) \/ Len(df_m5) = 0 THEN st
              ELSE execute_pending(st, S, Len(df_m5) - 1, bar_open_of(df_m5[Len(df_m5)]))
    IN  IF is_flat(s1.current_direction)
        THEN [s1 EXCEPT !.pc = "done"]
        ELSE [s1 EXCEPT !.trades = LedgerAppend(@, build_trade(S, s1.next_id,
                                       s1.current_direction, Get(s1.entry_bar),
                                       Len(df_m5) - 1, Get(s1.entry_price),
                                       round_to_tick(Get(EndFill(S, s1.current_direction,
                                                   bar_open_of(df_m5[Len(df_m5)])))))),
                        !.next_id = NextId(@),
                        !.current_direction = on_close.current_direction,
                        !.entry_bar_index = on_close.entry_bar_index,
                        !.pc = "done"]

\* _force_close_at_end on a state value.
force_close_at_end(st, S, df_m5) ==
    IF is_flat(st.current_direction)
    THEN [st EXCEPT !.pc = "done"]
    ELSE LET bar_ts == Len(df_m5) - 1
             fill == EndFill(S, st.current_direction, bar_open_of(df_m5[Len(df_m5)]))
             ok == ~IsNone(fill) /\ ~IsNone(st.entry_price) /\ ~IsNone(st.entry_bar)
         IN  IF ok
             THEN [st EXCEPT !.trades = LedgerAppend(@, build_trade(S, st.next_id,
                                                   st.current_direction,
                                                   Get(st.entry_bar), bar_ts,
                                                   Get(st.entry_price),
                                                   round_to_tick(Get(fill)))),
                             !.next_id = NextId(@),
                             !.current_direction = on_close.current_direction,
                             !.entry_bar_index = on_close.entry_bar_index,
                             !.pc = "done"]
             ELSE [st EXCEPT !.pc = "failed"]

\* The rest of run_backtest for a loop that has reached bar number i in
\* state st: the remaining iterations, then the end-of-data close.
run_backtest_from(st, S, df_m5, sigs, i) ==
    LET st1 == bar_loop(st, S, df_m5, sigs, i)
    IN  IF st1.pc = "failed" THEN st1 ELSE force_close_at_end(st1, S, df_m5)

\* run_backtest(df_m5, signals) called after an earlier run of the process.
run_backtest(S, df_m5, sigs, earlier) ==
    run_backtest_from(BacktestState(earlier), S, df_m5, sigs, 0)

\* The bars of df_m5 with the same opens and roll flags and candles of a shape.
Recandle(df_m5, shape) ==
    [k \in 1..Len(df_m5) |-> Candle(df_m5[k].open, df_m5[k].contains_roll, shape)]

\* Bar number i of df_m5 is a roll bar or lies in the freeze window of one:
\* the bars on which the loop continues before STEP 4.
SkippedBar(S, df_m5, i) ==
    \/ df_m5[i + 1].contains_roll
    \/ /\ HasSetting(S, "ROLL_FREEZE_BARS_POST")
       /\ \E r \in 0..(i - 1) : /\ df_m5[r + 1].contains_roll
                                 /\ i - r <= S["ROLL_FREEZE_BARS_POST"]

\* The signal series with value v on every roll bar and frozen bar.
ReplaceSkipped(S, df_m5, sigs, v) ==
    [k \in 1..Len(sigs) |-> IF SkippedBar(S, df_m5, k - 1) THEN v ELSE sigs[k]]

\* The bars of df_m5 with roll flag f on the final bar.
WithFinalRollFlag(df_m5, f) ==
    IF Len(df_m5) = 0 THEN df_m5
    ELSE [df_m5 EXCEPT ![Len(df_m5)].contains_roll = f]

\* The signal series with value v on the final bar.
WithFinalSignal(sigs, v) ==
    IF Len(sigs) = 0 THEN sigs
    ELSE [sigs EXCEPT ![Len(sigs)] = v]

\* The distinct ledgers and pending slots among the returned states.
FinalBarOutcomes(returned) ==
    [ledgers |-> {st.trades : st \in {r \in returned : r.pc = "done"}},
     pendings |-> {st.pending : st \in {r \in returned : r.pc = "done"}}]

\* Later calls of run_backtest, once the first has returned or failed, with
\* the same settings.  candles: one call for each candle shape, on bars that
\* agree with the first run's on timestamp, open and roll flag, with the same
\* signals.  discarded: one call for each signal value, on the same bars,
\* with that value as the signal of every roll bar and frozen bar.
\* final: one call for each signal value and roll flag of the final bar, the
\* earlier bars and signals being those of the first run; kept are the
\* ledgers and the pending slots of the calls that returned.
\* Calls with equal arguments are one value, and the calls that differ in
\* the final bar only share the loop up to that bar.
SecondRun ==
    /\ pc \in {"done", "failed"}
    /\ Len(bars) <= MaxLaterBars
    /\ IsNone(second)
    /\ \E same \in {run_backtest(settings, bars, signals, State)} :
       \E before_final \in {bar_loop(BacktestState(State), settings,
                                     SubSeq(bars, 1, Len(bars) - 1),
                                     SubSeq(signals, 1, Len(bars) - 1), 0)} :
          LET \* same: the call on the inputs of the first run;
              \* before_final: a later call when it reaches its final bar
              \* (the arguments of a call are values: d and g)
              later(df_m5, sigs) ==
                  CHOOSE st \in {IF d = bars /\ g = signals THEN same
                                 ELSE run_backtest(settings, d, g, State) :
                                     d \in {df_m5}, g \in {sigs}} : TRUE
              later_final(df_m5, sigs) ==
                  CHOOSE st \in {IF Len(bars) = 0 \/ (d = bars /\ g = signals) THEN same
                                 ELSE run_backtest_from(before_final, settings, d, g,
                                                        Len(bars) - 1) :
                                     d \in {df_m5}, g \in {sigs}} : TRUE
          IN  second' = Some([candles |-> [shape \in CandleShapes |->
                                             later(Recandle(bars, shape), signals)],
                              discarded |-> [v \in SignalValues |->
                                             later(bars, ReplaceSkipped(settings, bars,
                                                                        signals, v))],
                              final |-> FinalBarOutcomes(
                                           {later_final(WithFinalRollFlag(bars, f),
                                                        WithFinalSignal(signals, v)) :
                                                v \in SignalValues, f \in BOOLEAN})])
    /\ UNCHANGED <<settings, bars, signals, pc, current_direction, entry_bar_index,
                   trades, next_id, pending, entry_price, entry_bar,
                   roll_freeze_remaining, action, fills, probe>>

Next ==
    \/ ExecuteStep
    \/ RollBar
    \/ FreezeBar
    \/ SignalBar
    \/ EndOfData
    \/ SecondRun

Spec == Init /\ [][Next]_vars

\* ------------------------------------------------------------------------
\* Direct calls of execution_engine.compute_fill_price and ledger.build_trade
\* ------------------------------------------------------------------------
\* compute_fill_price(direction, bar_open, is_roll_close) called on its own.
CallComputeFillPrice ==
    /\ IsNone(probe)
    /\ \E direction \in Direction, bar_open \in CallPrices, is_roll_close \in BOOLEAN :
          probe' = Some([fn |-> "compute_fill_price", direction |-> direction,
                         bar_open |-> bar_open, is_roll_close |-> is_roll_close,
                         result |-> compute_fill_price(settings, direction, bar_open,
                                                        is_roll_close)])
    /\ UNCHANGED <<settings, bars, signals, pc, current_direction, entry_bar_index,
                   trades, next_id, pending, entry_price, entry_bar,
                   roll_freeze_remaining, action, fills, second>>

\* build_trade called twice for one direction, on two pairs of prices.
CallBuildTrade ==
    /\ IsNone(probe)
    /\ \E direction \in {LONG, SHORT}, e1 \in CallPrices, x1 \in CallPrices,
          e2 \in CallPrices, x2 \in CallPrices :
          probe' = Some([fn |-> "build_trade", direction |-> direction,
                         a |-> build_trade(settings, 1, direction, 0, 1, e1, x1),
                         b |-> build_trade(settings, 2, direction, 0, 1, e2, x2)])
    /\ UNCHANGED <<settings, bars, signals, pc, current_direction, entry_bar_index,
                   trades, next_id, pending, entry_price, entry_bar,
                   roll_freeze_remaining, action, fills, second>>

\* A state in which a close order for the held direction is queued, with
\* the entry price and the entry bar each stored or missing.
CloseQueuedState(direction, open_direction, exit_reason, e_price, e_bar, ledger) ==
    [pc |-> "execute", current_direction |-> direction, entry_bar_index |-> -1,
     trades |-> ledger, next_id |-> Len(ledger) + 1,
     pending |-> Some(PendingOrder(Some(direction), open_direction, 0, exit_reason)),
     entry_price |-> e_price, entry_bar |-> e_bar, roll_freeze_remaining |-> 0]

\* _execute_pending(state, bar_ts, bar_open) called on its own, for bar 1.
CallExecutePending ==
    /\ IsNone(probe)
    /\ \E direction \in {LONG, SHORT}, reverse \in BOOLEAN, exit_reason \in {"signal", "roll"},
          e_price \in {None, Some(ScenarioOpens[1])}, e_bar \in {None, Some(0)},
          earlier \in {<< >>, <<build_trade(settings, 1, LONG, 0, 0, ScenarioOpens[1],
                                             ScenarioOpens[1])>>},
          bar_open \in CallPrices :
          LET st == CloseQueuedState(direction,
                                     IF reverse THEN Some(-direction) ELSE None,
                                     exit_reason, e_price, e_bar, earlier)
          IN  probe' = Some([fn |-> "_execute_pending", state |-> st,
                             bar_open |-> bar_open,
                             result |-> execute_pending(st, settings, 1, bar_open)])
    /\ UNCHANGED <<settings, bars, signals, pc, current_direction, entry_bar_index,
                   trades, next_id, pending, entry_price, entry_bar,
                   roll_freeze_remaining, action, fills, second>>

\* round_to_tick(price) called on its own, on every price of the call grid
\* and between its ticks.
CallRoundToTick ==
    /\ IsNone(probe)
    /\ \E price \in ScenarioOpens[1]..(ScenarioOpens[1] + MaxTicks * TICK_SIZE) :
          probe' = Some([fn |-> "round_to_tick", price |-> price,
                         result |-> round_to_tick(price)])
    /\ UNCHANGED <<settings, bars, signals, pc, current_direction, entry_bar_index,
                   trades, next_id, pending, entry_price, entry_bar,
                   roll_freeze_remaining, action, fills, second>>

NextCalls ==
    \/ CallComputeFillPrice
    \/ CallBuildTrade
    \/ CallExecutePending
    \/ CallRoundToTick

SpecCalls == Init /\ [][NextCalls]_vars

\* ------------------------------------------------------------------------
\* Type invariant
\* ------------------------------------------------------------------------
TypeOK ==
    /\ settings \in {ShippedSettings, CompleteSettings}
    /\ Len(bars) = Len(signals)
    /\ Len(bars) <= MaxBars
    /\ pc \in {"execute", "evaluate", "done", "failed"}
    /\ current_direction \in Direction
    /\ next_id \in Nat
    /\ roll_freeze_remaining \in Nat
    /\ Len(pending) <= 1
    /\ Len(entry_price) <= 1
    /\ Len(entry_bar) <= 1

\* ------------------------------------------------------------------------
\* Helpers of the properties
\* ------------------------------------------------------------------------
OrderLegs(o) ==
    (IF IsNone(o.close_direction) THEN 0 ELSE 1) + (IF IsNone(o.open_direction) THEN 0 ELSE 1)

\* Slippage ticks that apply to an executed leg.
FillTicks(f) ==
    IF f.leg = "close" /\ f.reason = "roll" THEN ROLL_CLOSE_SLIPPAGE_TICKS ELSE SLIPPAGE_TICKS

\* Order direction d at open price o with k ticks of slippage, rounded to tick.
SlippedRounded(o, d, k) == round_to_tick(o + d * k * TICK_SIZE)

OpensIn(log, n) == Cardinality({k \in 1..n : log[k].leg = "open"})

ClosesIn(log, n) == Cardinality({k \in 1..n : log[k].leg = "close"})

HasFill(leg, reason) == \E k \in 1..Len(fills) : fills[k].leg = leg /\ fills[k].reason = reason

\* ------------------------------------------------------------------------
\* C1
\* ------------------------------------------------------------------------
\* The legs logged by a step that executes order o at the open of bar j.
C1_LegsOfStep(o, j, old, new, j_open) ==
    /\ Len(new) = Len(old) + OrderLegs(o)
    /\ \A k \in 1..Len(old) : new[k] = old[k]
    /\ \A k \in (Len(old) + 1)..Len(new) :
          /\ new[k].bar = j
          /\ new[k].signal_bar = Some(j - 1)
          /\ new[k].reason = o.exit_reason
          /\ new[k].price = SlippedRounded(j_open, new[k].direction, FillTicks(new[k]))
    /\ ~IsNone(o.close_direction) =>
          /\ new[Len(old) + 1].leg = "close"
          /\ new[Len(old) + 1].direction = -Get(o.close_direction)
    /\ ~IsNone(o.open_direction) =>
          /\ new[Len(new)].leg = "open"
          /\ new[Len(new)].direction = Get(o.open_direction)

\* C1: an order queued on bar i (by signal evaluation or roll handling) is
\* still in the pending slot, unfilled, when bar i ends; the fill step of bar
\* i+1 executes each of its legs exactly once at a price computed from
\* open[i+1] and empties the slot; no other step fills an order, and an order
\* in the slot was always queued on the latest bar, so none is filled on its
\* own bar, later than bar i+1, or twice.
C1_FillAtNextOpenOnly ==
    [][ /\ (pc' = "evaluate" => IsNone(pending'))
        /\ (~IsNone(pending') => Get(pending').signal_bar = Len(bars') - 1)
        /\ (Len(bars') = Len(bars) + 1 /\ ~IsNone(pending)) =>
              /\ Get(pending).signal_bar = Len(bars) - 1
              /\ IsNone(pending')
              /\ C1_LegsOfStep(Get(pending), Len(bars), fills, fills',
                               bars'[Len(bars')].open)
        /\ (Len(bars') = Len(bars) + 1 /\ IsNone(pending)) => fills' = fills
        /\ (Len(bars') = Len(bars) /\ pc' # "done") => fills' = fills
        /\ (~IsNone(pending') /\ pending' # pending) => fills' = fills
      ]_vars

\* A signal order and a roll order have both been filled and the slot is empty.
C1_Witness ==
    /\ pc = "evaluate"
    /\ IsNone(pending)
    /\ HasFill("open", "signal")
    /\ HasFill("close", "roll")

\* ------------------------------------------------------------------------
\* C2
\* ------------------------------------------------------------------------
\* C2: no trade of the ledger has an entry_bar that is a roll-flagged bar.
C2_NoTradeEntersOnRollBar ==
    \A k \in 1..Len(trades) : ~IsRollBar(trades[k].entry_bar)

\* ------------------------------------------------------------------------
\* C3
\* ------------------------------------------------------------------------
\* C3: no open leg is filled on a roll bar r or on any of the
\* ROLL_FREEZE_BARS_POST bars after it, and on every such bar the pending
\* order has been executed by the end of the fill step.
C3_NoOpenInFreezeWindow ==
    /\ \A k \in 1..Len(fills) :
          fills[k].leg = "open" =>
             \A r \in 0..fills[k].bar :
                IsRollBar(r) => fills[k].bar - r > ROLL_FREEZE_BARS_POST
    /\ (pc = "evaluate" /\ (IsRollBar(CurBar) \/ roll_freeze_remaining > 0)) => IsNone(pending)

\* ------------------------------------------------------------------------
\* C4
\* ------------------------------------------------------------------------
\* C4: in every state, for every prefix of the executed legs, opens minus
\* closes is 0 or 1; an open leg is executed only when opens equal closes;
\* every close leg appended one trade; and opens minus trades is 1 exactly
\* when the position is LONG or SHORT.
C4_AtMostOneOpenPosition ==
    /\ \A n \in 0..Len(fills) : OpensIn(fills, n) - ClosesIn(fills, n) \in {0, 1}
    /\ \A n \in 1..Len(fills) :
          fills[n].leg = "open" => OpensIn(fills, n - 1) = ClosesIn(fills, n - 1)
    /\ ClosesIn(fills, Len(fills)) = Len(trades)
    /\ (OpensIn(fills, Len(fills)) - Len(trades) = 1) <=> (current_direction \in {LONG, SHORT})
    /\ OpensIn(fills, Len(fills)) - Len(trades) \in {0, 1}

\* A position is open after an earlier one was closed.
C4_Witness ==
    /\ Len(trades) >= 1
    /\ current_direction # FLAT
    /\ OpensIn(fills, Len(fills)) = 2

\* ------------------------------------------------------------------------
\* C5
\* ------------------------------------------------------------------------
\* C5: when run_backtest has returned on a non-empty stream the position is
\* FLAT, every open leg has its trade, and the last trade's exit_bar is not
\* later than the final bar.
C5_FlatAtReturn ==
    (pc = "done" /\ Len(bars) > 0) =>
        /\ current_direction = FLAT
        /\ OpensIn(fills, Len(fills)) = Len(trades)
        /\ Len(trades) > 0 => trades[Len(trades)].exit_bar <= CurBar

\* The run returned after force-closing a position at the end of data.
C5_Witness ==
    /\ pc = "done"
    /\ Len(bars) > 0
    /\ HasFill("close", "end")
    /\ trades[Len(trades)].exit_bar = CurBar

\* ------------------------------------------------------------------------
\* C6
\* ------------------------------------------------------------------------
\* The n-th executed open leg and the n-th executed close leg.
NthOpen(n) == fills[CHOOSE k \in 1..Len(fills) : fills[k].leg = "open" /\ OpensIn(fills, k) = n]

NthClose(n) == fills[CHOOSE k \in 1..Len(fills) : fills[k].leg = "close" /\ ClosesIn(fills, k) = n]

C7_UnroundedFillPrices ==
    \A n \in 1..Len(trades) :
       LET t == trades[n]
       IN  /\ t.entry_price = BarOpen(t.entry_bar) + t.direction * SLIPPAGE_TICKS * TICK_SIZE
           /\ t.exit_price = BarOpen(t.exit_bar)
                               - t.direction * FillTicks(NthClose(n)) * TICK_SIZE

\* C7 amended: entry_price = round_to_tick(open[entry_bar] + d x
\* SLIPPAGE_TICKS x TICK_SIZE) and exit_price = round_to_tick(open[exit_bar]
\* - d x s x TICK_SIZE); when the open is a multiple of TICK_SIZE these are
\* the unrounded sums; a leg bought (LONG order) fills above the open and a
\* leg sold (SHORT order) below it, the closing leg being an order in the
\* negated direction of the position.
C7_AdverseRoundedFillPrices ==
    \A n \in 1..Len(trades) :
       LET t == trades[n]
           o_in == BarOpen(t.entry_bar)
           o_out == BarOpen(t.exit_bar)
           s == FillTicks(NthClose(n))
       IN  /\ t.direction \in {LONG, SHORT}
           /\ t.entry_price = round_to_tick(o_in + t.direction * SLIPPAGE_TICKS * TICK_SIZE)
           /\ t.exit_price = round_to_tick(o_out - t.direction * s * TICK_SIZE)
           /\ o_in % TICK_SIZE = 0 =>
                 t.entry_price = o_in + t.direction * SLIPPAGE_TICKS * TICK_SIZE
           /\ o_out % TICK_SIZE = 0 =>
                 t.exit_price = o_out - t.direction * s * TICK_SIZE
           /\ NthClose(n).direction = -t.direction
           /\ NthOpen(n).direction = t.direction
           /\ t.direction = LONG => (t.entry_price > o_in /\ t.exit_price < o_out)
           /\ t.direction = SHORT => (t.entry_price < o_in /\ t.exit_price > o_out)

\* A LONG and a SHORT trade are recorded, one of them filled at an off-tick open.
C7_Witness ==
    /\ \E n \in 1..Len(trades) : trades[n].direction = LONG
    /\ \E n \in 1..Len(trades) : trades[n].direction = SHORT
    /\ \E n \in 1..Len(trades) : BarOpen(trades[n].entry_bar) % TICK_SIZE # 0
    /\ \E n \in 1..Len(trades) : BarOpen(trades[n].exit_bar) % TICK_SIZE = 0

\* ------------------------------------------------------------------------
\* C8
\* ------------------------------------------------------------------------
\* C8: a close leg executed from an order tagged "roll" is slipped by
\* ROLL_CLOSE_SLIPPAGE_TICKS; every open leg, every close leg of an order
\* tagged "signal" and the end-of-data close are slipped by SLIPPAGE_TICKS;
\* an order is tagged "roll" exactly when it was queued on a roll bar (by
\* roll handling), and such an order has no open leg.
C8_RollCloseSlippage ==
    /\ \A k \in 1..Len(fills) :
          LET f == fills[k]
              o == BarOpen(f.bar)
          IN  /\ f.reason \in {"signal", "roll", "end"}
              /\ (f.leg = "close" /\ f.reason = "roll") =>
                    f.price = SlippedRounded(o, f.direction, ROLL_CLOSE_SLIPPAGE_TICKS)
              /\ (f.leg = "open" \/ f.reason \in {"signal", "end"}) =>
                    f.price = SlippedRounded(o, f.direction, SLIPPAGE_TICKS)
              /\ f.reason = "roll" => (f.leg = "close" /\ IsRollBar(Get(f.signal_bar)))
              /\ f.reason = "signal" => ~IsRollBar(Get(f.signal_bar))
    /\ ~IsNone(pending) =>
          /\ Get(pending).exit_reason \in {"signal", "roll"}
          /\ (Get(pending).exit_reason = "roll") <=> IsRollBar(Get(pending).signal_bar)

\* A roll-tagged close and a signal-tagged close have both been executed.
C8_Witness ==
    /\ HasFill("close", "roll")
    /\ HasFill("close", "signal")
    /\ HasFill("open", "signal")

\* ------------------------------------------------------------------------
\* C9
\* ------------------------------------------------------------------------
\* The four cases of the decision table.
C9_NoSignal(sig, cur) == sig = 0

C9_SameDirection(sig, cur) == sig = cur

C9_FlatEntry(sig, cur) == cur = FLAT /\ sig # 0

C9_Reversal(sig, cur) == cur # FLAT /\ sig = -cur

C9_Expected(act, sig, cur) ==
    /\ (C9_NoSignal(sig, cur) \/ C9_SameDirection(sig, cur)) =>
          (~act.close_existing /\ ~act.open_new)
    /\ C9_FlatEntry(sig, cur) =>
          (~act.close_existing /\ act.open_new /\ act.new_direction = sig)
    /\ C9_Reversal(sig, cur) =>
          (act.close_existing /\ act.open_new /\ act.new_direction = sig)

\* C9: every signal evaluation of the run returns the Action of the
\* decision table for (signal, current direction), and the four cases of the
\* table cover every signal in {-1,0,+1} and every current direction.
C9_DecisionTable ==
    [][ (pc = "evaluate" /\ pc' = "execute" /\ ~IsRollBar(CurBar)
           /\ roll_freeze_remaining = 0) =>
          /\ C9_Expected(action', SignalAt(CurBar), current_direction)
          /\ \A sig \in SignalValues, cur \in Direction :
                \/ C9_NoSignal(sig, cur)
                \/ C9_SameDirection(sig, cur)
                \/ C9_FlatEntry(sig, cur)
                \/ C9_Reversal(sig, cur)
      ]_vars

\* A reversal has just been decided: opposite signal while a position is open.
C9_Witness ==
    /\ pc = "execute"
    /\ Len(bars) > 0
    /\ current_direction # FLAT
    /\ SignalAt(CurBar) = -current_direction
    /\ action.close_existing
    /\ action.open_new
    /\ ~IsNone(pending)
    /\ Get(pending).signal_bar = CurBar
    /\ Get(pending).exit_reason = "signal"

\* ------------------------------------------------------------------------
\* C10
\* ------------------------------------------------------------------------
\* The input of the worked scenario: four bars at the scenario opens, no roll
\* bar, signals 0, +1, 0, -1, and the run has returned.
C10_ScenarioRun ==
    /\ pc = "done"
    /\ Len(bars) = 4
    /\ \A i \in 0..3 : BarOpen(i) = ScenarioOpens[i + 1] /\ ~IsRollBar(i)
    /\ signals = <<0, 1, 0, -1>>

\* C10: the worked scenario yields exactly one trade: LONG, entered on bar 2
\* at 1.10055, closed on bar 3 at 1.09945 by the end-of-data close, gross
\* -137.50, commission 5.00, net -142.50, not a winner.
C10_WorkedExample ==
    C10_ScenarioRun =>
        /\ trades = << [trade_id |-> 1, direction |-> LONG, entry_bar |-> 2,
                        exit_bar |-> 3, entry_price |-> 1100550,
                        exit_price |-> 1099450, gross_pnl |-> -137500,
                        commission |-> 5000, net_pnl |-> -142500,
                        is_winner |-> FALSE] >>
        /\ fills[Len(fills)].reason = "end"
        /\ current_direction = FLAT

C10_Witness == C10_ScenarioRun /\ Len(trades) = 1

\* ------------------------------------------------------------------------
\* C11: no lookahead.  A later run over bars that agree with the first run's
\* on timestamp, open and roll flag, with the same signals, returns the same
\* ledger (and ends the same way) whatever the high, low and close of its
\* bars are: the fills of a bar depend on that bar only through its open.
\* ------------------------------------------------------------------------
C11_NoLookahead ==
    ~IsNone(second) =>
        \A shape \in CandleShapes :
            /\ Get(second).candles[shape].trades = trades
            /\ Get(second).candles[shape].pc = pc

\* A second run over candles of another shape, after a first run that
\* recorded a signal exit and a later trade.
C11_Witness ==
    /\ ~IsNone(second)
    /\ pc = "done"
    /\ Len(trades) >= 2
    /\ HasFill("close", "signal")
    /\ Recandle(bars, 2) # bars
    /\ Get(second).candles[2].trades = trades

\* ------------------------------------------------------------------------
\* C12: trade ids are sequential from 1.  The k-th trade of the ledger has
\* trade_id k, and the ledger's next-id counter is its length plus one.
\* ------------------------------------------------------------------------
C12_SequentialTradeIds ==
    /\ \A k \in 1..Len(trades) : trades[k].trade_id = k
    /\ next_id = Len(trades) + 1

\* A ledger holding a trade recorded by the fill step and one recorded by the
\* end-of-data close.
C12_Witness ==
    /\ pc = "done"
    /\ Len(trades) >= 2
    /\ HasFill("close", "end")
    /\ HasFill("close", "signal")

\* ------------------------------------------------------------------------
\* C13: the entry cache mirrors the position.  In every state of a run that
\* has not failed, the state returned after the end-of-data close included,
\* the entry price and the entry bar are both present exactly when the
\* position is not FLAT.
\* ------------------------------------------------------------------------
C13_EntryCacheMirrorsPosition ==
    pc # "failed" =>
        /\ ~IsNone(entry_price) <=> ~is_flat(current_direction)
        /\ ~IsNone(entry_bar) <=> ~is_flat(current_direction)

\* ------------------------------------------------------------------------
\* C14: empty stream.  A run over zero bars executes no steps and returns,
\* without an error, a state with an empty ledger, a FLAT position, no
\* pending order and freeze counter 0.
\* ------------------------------------------------------------------------
C14_EmptyStream ==
    (Len(bars) = 0 /\ pc # "execute") =>
        /\ pc = "done"
        /\ trades = << >>
        /\ next_id = 1
        /\ current_direction = FLAT
        /\ IsNone(pending)
        /\ roll_freeze_remaining = 0
        /\ fills = << >>

\* The run over zero bars has returned.
C14_Witness == Len(bars) = 0 /\ pc = "done"

\* ------------------------------------------------------------------------
\* C15: configuration completeness.  Every configuration value the engine
\* reads is defined, so a run over a stream that contains a roll bar never
\* fails on a missing configuration value.
\* ------------------------------------------------------------------------
C15_RunOverRollBarCompletes ==
    (\E k \in 1..Len(bars) : bars[k].contains_roll) =>
        pc # "failed"

\* ------------------------------------------------------------------------
\* C16: a FLAT order is rejected.  Computing a fill price for direction FLAT,
\* in either slippage mode, fails: it yields no price, and in particular not
\* the bar's open as a zero-slippage fill.  A LONG or SHORT order whose
\* slippage setting is defined does yield a price.
\* ------------------------------------------------------------------------
C16_FlatOrderRejected ==
    (~IsNone(probe) /\ Get(probe).fn = "compute_fill_price") =>
        LET q == Get(probe)
        IN  /\ q.direction = FLAT => IsNone(q.result)
            /\ (q.direction # FLAT /\ ~IsNone(SlippageTicks(settings, q.is_roll_close)))
                   => ~IsNone(q.result)

\* compute_fill_price was called for FLAT in roll-close mode with the roll
\* slippage defined.
C16_Witness ==
    /\ ~IsNone(probe)
    /\ Get(probe).fn = "compute_fill_price"
    /\ Get(probe).direction = FLAT
    /\ Get(probe).is_roll_close
    /\ HasSetting(settings, "ROLL_CLOSE_SLIPPAGE_TICKS")
    /\ IsNone(Get(probe).result)

\* ------------------------------------------------------------------------
\* C17: PnL sign convention.  For two trades of one direction, the LONG with
\* the larger (exit - entry) has the strictly larger net_pnl and the SHORT
\* with the larger (exit - entry) the strictly smaller one; a move of one tick
\* in the trade's favour raises net_pnl by exactly tick_value.
\* ------------------------------------------------------------------------
C17_PnlSignConvention ==
    (~IsNone(probe) /\ Get(probe).fn = "build_trade") =>
        LET q == Get(probe)
            move_a == q.a.exit_price - q.a.entry_price
            move_b == q.b.exit_price - q.b.entry_price
        IN  /\ (q.direction = LONG /\ move_a < move_b) => q.a.net_pnl < q.b.net_pnl
            /\ (q.direction = SHORT /\ move_a < move_b) => q.a.net_pnl > q.b.net_pnl
            /\ move_b = move_a + q.direction * TICK_SIZE
                   => q.b.net_pnl = q.a.net_pnl + TICK_VALUE

\* Two SHORT trades one tick apart, the second one tick further in the
\* trade's favour and on the other side of break-even.
C17_Witness ==
    /\ ~IsNone(probe)
    /\ Get(probe).fn = "build_trade"
    /\ Get(probe).direction = SHORT
    /\ Get(probe).b.exit_price - Get(probe).b.entry_price
           = Get(probe).a.exit_price - Get(probe).a.entry_price - TICK_SIZE
    /\ Get(probe).b.net_pnl = Get(probe).a.net_pnl + TICK_VALUE
    /\ ~Get(probe).a.is_winner
    /\ Get(probe).b.is_winner

\* ------------------------------------------------------------------------
\* C18: determinism and run isolation.  A run begins FLAT with an empty
\* ledger, next id 1, no pending order, no entry cache and freeze counter 0,
\* whatever an earlier run of the process left behind; a later run on the
\* same bars, signals and settings returns the same ledger and the same
\* final state as the first.
\* ------------------------------------------------------------------------
C18_FreshState ==
    [pc |-> "execute", current_direction |-> FLAT, entry_bar_index |-> -1,
     trades |-> << >>, next_id |-> 1, pending |-> None,
     entry_price |-> None, entry_bar |-> None, roll_freeze_remaining |-> 0]

C18_RunIsolation ==
    /\ (Len(bars) = 0 /\ pc = "execute") => State = C18_FreshState
    /\ BacktestState(State) = C18_FreshState
    /\ ~IsNone(second) => (Recandle(bars, 1) = bars /\ Get(second).candles[1] = State)

\* A second run on identical bars, after a first run that returned with
\* trades in its ledger, a pending order and an entry cache left in its state.
C18_Witness ==
    /\ ~IsNone(second)
    /\ pc = "done"
    /\ Len(trades) >= 2
    /\ ~IsNone(pending)
    /\ ~IsNone(entry_price)
    /\ Get(second).candles[1].next_id = 3

\* ------------------------------------------------------------------------
\* C19: fill-first ordering.  On every bar the pending order is executed
\* before the roll check, the freeze check and signal evaluation, also when
\* the bar is a roll bar or lies in a freeze window; the roll check and signal
\* evaluation run with the slot already emptied, execute nothing themselves,
\* and act on the position as it is after that bar's fill.
\* ------------------------------------------------------------------------
\* The position implied by the legs executed so far.
C19_PositionAfterFills(log) ==
    IF Len(log) > 0 /\ log[Len(log)].leg = "open" THEN log[Len(log)].direction ELSE FLAT

C19_FillFirst ==
    [][ /\ (Len(bars') = Len(bars) + 1 /\ ~IsNone(pending)) =>
              /\ pc' = "evaluate"
              /\ Len(fills') = Len(fills) + OrderLegs(Get(pending))
              /\ fills'[Len(fills')].bar = Len(bars)
              /\ current_direction' = C19_PositionAfterFills(fills')
        /\ pc = "evaluate" =>
              /\ IsNone(pending)
              /\ current_direction = C19_PositionAfterFills(fills)
              /\ fills' = fills
              /\ trades' = trades
              /\ current_direction' = current_direction
              /\ (IsRollBar(CurBar) /\ current_direction # FLAT) =>
                     pending' = Some(PendingOrder(Some(current_direction), None,
                                                  CurBar, "roll"))
              /\ (IsRollBar(CurBar) /\ current_direction = FLAT) => IsNone(pending')
              /\ (~IsRollBar(CurBar) /\ roll_freeze_remaining > 0) => IsNone(pending')
              /\ (~IsRollBar(CurBar) /\ roll_freeze_remaining = 0) =>
                     pending' = SignalOrder(evaluate_signal(current_direction,
                                                            SignalAt(CurBar)),
                                            current_direction, CurBar)
      ]_vars

\* An order was executed at the open of a roll bar, and the roll check now
\* sees the position it left.
C19_Witness ==
    /\ pc = "evaluate"
    /\ IsRollBar(CurBar)
    /\ Len(fills) > 0
    /\ fills[Len(fills)].bar = CurBar
    /\ current_direction = C19_PositionAfterFills(fills)

\* ------------------------------------------------------------------------
\* C20: reversal atomicity.  When the executed order has a close leg and an
\* open leg, the same fill step first appends the closed position's trade,
\* built from the entry price and entry bar stored for the old position, and
\* then opens the new position with its own entry price and entry bar; both
\* legs are priced from that bar's open, and after the step the position is
\* the new direction, never FLAT.
\* ------------------------------------------------------------------------
C20_IsReversal(order) ==
    /\ ~IsNone(order)
    /\ ~IsNone(Get(order).close_direction)
    /\ ~IsNone(Get(order).open_direction)

C20_ReversalAtomic ==
    [][ (Len(bars') = Len(bars) + 1 /\ C20_IsReversal(pending)) =>
            LET p == Get(pending)
                i == Len(bars)
                o == bars'[i + 1].open
                n == Len(fills)
                t == trades'[Len(trades')]
            IN  /\ Get(p.close_direction) = current_direction
                /\ Get(p.open_direction) = -current_direction
                /\ trades' = Append(trades, t)
                /\ t.direction = current_direction
                /\ t.entry_price = Get(entry_price)
                /\ t.entry_bar = Get(entry_bar)
                /\ t.exit_bar = i
                /\ t.exit_price = SlippedRounded(o, -current_direction, SLIPPAGE_TICKS)
                /\ Len(fills') = n + 2
                /\ fills'[n + 1].leg = "close"
                /\ fills'[n + 1].bar = i
                /\ fills'[n + 1].price = t.exit_price
                /\ fills'[n + 2].leg = "open"
                /\ fills'[n + 2].bar = i
                /\ fills'[n + 2].price = SlippedRounded(o, -current_direction,
                                                        SLIPPAGE_TICKS)
                /\ current_direction' = -current_direction
                /\ current_direction' # FLAT
                /\ entry_price' = Some(fills'[n + 2].price)
                /\ entry_bar' = Some(i)
                /\ IsNone(pending')
      ]_vars

\* A reversal has just been executed: the last two legs are a close and an
\* open on the latest bar, the trade closes a position entered earlier at
\* another price, and the new position is open.
C20_Witness ==
    /\ pc = "evaluate"
    /\ Len(fills) >= 3
    /\ fills[Len(fills) - 1].leg = "close"
    /\ fills[Len(fills)].leg = "open"
    /\ fills[Len(fills) - 1].bar = CurBar
    /\ fills[Len(fills)].bar = CurBar
    /\ Len(trades) >= 1
    /\ trades[Len(trades)].entry_bar < CurBar
    /\ trades[Len(trades)].entry_price # Get(entry_price)
    /\ current_direction = -trades[Len(trades)].direction
    /\ current_direction # FLAT

\* ------------------------------------------------------------------------
\* C21: roll handling.  On a roll bar, after the fill step, a position that
\* is not FLAT gets a close-only order for the held direction tagged "roll"
\* queued, and a FLAT position gets no order; an order queued on a roll bar
\* never has an open leg; and when the step completes the freeze counter is
\* roll_freeze_bars in both cases.
\* ------------------------------------------------------------------------
C21_RollHandling ==
    [][ (pc = "evaluate" /\ IsRollBar(CurBar)) =>
            /\ current_direction # FLAT =>
                   /\ ~IsNone(pending')
                   /\ Get(pending').close_direction = Some(current_direction)
                   /\ IsNone(Get(pending').open_direction)
                   /\ Get(pending').exit_reason = "roll"
                   /\ Get(pending').signal_bar = CurBar
            /\ current_direction = FLAT => IsNone(pending')
            /\ pc' = "execute" => roll_freeze_remaining' = ROLL_FREEZE_BARS_POST
            /\ HasSetting(settings, "ROLL_FREEZE_BARS_POST") => pc' = "execute"
      ]_vars

\* A roll bar has queued the roll close of an open position and set the
\* freeze counter, and an earlier roll bar found the position FLAT.
C21_Witness ==
    /\ pc = "execute"
    /\ Len(bars) >= 2
    /\ IsRollBar(CurBar)
    /\ IsRollBar(0)
    /\ \A k \in 1..Len(fills) : fills[k].bar > 0
    /\ ~IsNone(pending)
    /\ Get(pending).exit_reason = "roll"
    /\ IsNone(Get(pending).open_direction)
    /\ Get(pending).close_direction = Some(current_direction)
    /\ roll_freeze_remaining = ROLL_FREEZE_BARS_POST

\* ------------------------------------------------------------------------
\* C22: freeze window length.  With r the latest roll bar before bar i, the
\* bars r+1..r+roll_freeze_bars that are not roll bars themselves are frozen:
\* signal evaluation is skipped on them and the counter is decremented once
\* on each, reaching 0 on bar r+roll_freeze_bars; signal evaluation is also
\* skipped on a roll bar; and on every other bar, bar r+roll_freeze_bars+1
\* included, the signal is evaluated normally with the counter at 0.
\* ------------------------------------------------------------------------
\* The latest roll bar before bar i, or -1.
C22_LastRollBefore(i) ==
    IF \E r \in 0..(i - 1) : IsRollBar(r)
    THEN CHOOSE r \in 0..(i - 1) : IsRollBar(r) /\ \A q \in (r + 1)..(i - 1) : ~IsRollBar(q)
    ELSE -1

\* The freeze counter with which the checks of bar i begin.
C22_FreezeAt(i) ==
    LET r == C22_LastRollBefore(i)
        left == ROLL_FREEZE_BARS_POST - (i - 1 - r)
    IN  IF r >= 0 /\ left > 0 THEN left ELSE 0

C23_DiscardedSignals ==
    /\ ~IsNone(second) =>
           \A v \in SignalValues : Get(second).discarded[v] = State
    /\ (pc = "execute" /\ Len(bars) > 0 /\ SkippedBar(settings, bars, CurBar)) =>
           (~IsNone(pending) => /\ Get(pending).exit_reason = "roll"
                                /\ IsNone(Get(pending).open_direction))

\* A run with an entry signal on a roll bar and on a frozen bar, both
\* discarded, and a trade recorded; the runs with those signals replaced by
\* 0 and by the opposite value have returned.
C23_Witness ==
    /\ ~IsNone(second)
    /\ pc = "done"
    /\ Len(trades) >= 1
    /\ \E r \in 0..(Len(bars) - 2) :
          /\ IsRollBar(r)
          /\ ~IsRollBar(r + 1)
          /\ SkippedBar(settings, bars, r + 1)
          /\ SignalAt(r) # 0
          /\ SignalAt(r + 1) = -SignalAt(r)
    /\ \A v \in SignalValues : ReplaceSkipped(settings, bars, signals, v) # signals

\* ------------------------------------------------------------------------
\* C24 as stated: an order still queued when a bar's signal evaluation
\* yields no action is discarded without being filled, so an entry queued on
\* bar i is cancelled when bar i+1 is an evaluated bar with no signal.
\* ------------------------------------------------------------------------
C24_NoSignalCancelsQueuedOrder ==
    [][ (/\ Len(bars') = Len(bars) + 1
         /\ ~IsNone(pending)
         /\ ~bars'[Len(bars')].contains_roll
         /\ ~InFreeze(roll_freeze_remaining)
         /\ signals'[Len(signals')] = 0) =>
            /\ fills' = fills
            /\ trades' = trades
            /\ current_direction' = current_direction
      ]_vars

\* C24 amended: signal evaluation that yields no action sets the pending slot
\* to empty, but finds it empty already, because the fill step of the same bar
\* has executed the queued order; so no queued order is ever cancelled: an
\* order queued on bar i is filled at the open of bar i+1 whatever the signal
\* of bar i+1 is, and after every bar whose evaluation yields no action no
\* pending order exists.
C24_NoSignalFindsSlotEmpty ==
    [][ /\ (pc = "evaluate" /\ ~IsRollBar(CurBar) /\ ~InFreeze(roll_freeze_remaining)) =>
              /\ IsNone(pending)
              /\ action' = NoAction => IsNone(pending')
              /\ ~IsNone(pending') => (action'.close_existing \/ action'.open_new)
        /\ (Len(bars') = Len(bars) + 1 /\ ~IsNone(pending)) =>
              /\ Len(fills') = Len(fills) + OrderLegs(Get(pending))
              /\ OrderLegs(Get(pending)) >= 1
      ]_vars

\* An entry queued on bar i was filled at the open of bar i+1, an evaluated
\* bar whose signal was 0; its evaluation yielded no action and the slot is
\* empty.
C24_Witness ==
    /\ pc = "execute"
    /\ Len(bars) >= 2
    /\ ~SkippedBar(settings, bars, CurBar)
    /\ SignalAt(CurBar) = 0
    /\ action = NoAction
    /\ IsNone(pending)
    /\ Len(fills) >= 1
    /\ fills[Len(fills)].bar = CurBar
    /\ fills[Len(fills)].leg = "open"
    /\ fills[Len(fills)].signal_bar = Some(CurBar - 1)
    /\ current_direction # FLAT

\* ------------------------------------------------------------------------
\* C25: end-of-data force close.  When the loop ends with a position that is
\* not FLAT, exactly one trade is appended: its exit_bar is the final bar,
\* its exit_price is the final bar's open slipped adversely by the standard
\* slippage_ticks as an order in the negated direction and rounded to tick,
\* and its direction, entry price and entry bar are the stored ones; when the
\* loop ends FLAT nothing is appended.  Either way the run returns.
\* ------------------------------------------------------------------------
C25_ForceCloseAtEnd ==
    [][ (pc = "execute" /\ Len(bars') = Len(bars) /\ pc' # "execute") =>
            /\ pc' = "done"
            /\ current_direction' = FLAT
            /\ current_direction = FLAT =>
                   /\ trades' = trades
                   /\ fills' = fills
            /\ current_direction # FLAT =>
                   LET t == trades'[Len(trades')]
                   IN  /\ trades' = Append(trades, t)
                       /\ t.direction = current_direction
                       /\ t.entry_price = Get(entry_price)
                       /\ t.entry_bar = Get(entry_bar)
                       /\ t.exit_bar = CurBar
                       /\ t.exit_price = SlippedRounded(BarOpen(CurBar), -current_direction,
                                                        SLIPPAGE_TICKS)
                       /\ Len(fills') = Len(fills) + 1
                       /\ fills'[Len(fills')].reason = "end"
      ]_vars

\* The run has returned after force-closing a position at an off-tick final
\* open, with the reversal order queued on the final bar still unexecuted.
C25_Witness ==
    /\ pc = "done"
    /\ Len(fills) >= 2
    /\ fills[Len(fills)].reason = "end"
    /\ fills[Len(fills)].bar = CurBar
    /\ trades[Len(trades)].exit_bar = CurBar
    /\ trades[Len(trades)].exit_price # BarOpen(CurBar) - trades[Len(trades)].direction * TICK_SIZE
    /\ ~IsNone(pending)
    /\ Get(pending).exit_reason = "signal"
    /\ Get(pending).signal_bar = CurBar

\* ------------------------------------------------------------------------
\* C26: a missing entry on close is fatal and leaves no partial record.  When
\* the fill step executes a close leg while no entry price or no entry bar is
\* stored, it fails, and at the failure no trade has been appended and the
\* trade-id counter, the position and the pending order are as before; with
\* both stored and the slippage setting defined it appends the trade.
\* ------------------------------------------------------------------------
C26_MissingEntryIsFatal ==
    (~IsNone(probe) /\ Get(probe).fn = "_execute_pending") =>
        LET q == Get(probe)
            missing == IsNone(q.state.entry_price) \/ IsNone(q.state.entry_bar)
        IN  /\ missing =>
                  /\ q.result.pc = "failed"
                  /\ q.result.trades = q.state.trades
                  /\ q.result.next_id = q.state.next_id
                  /\ q.result.current_direction = q.state.current_direction
                  /\ q.result.entry_bar_index = q.state.entry_bar_index
                  /\ q.result.pending = q.state.pending
            /\ (~missing /\ ~IsNone(CloseFill(settings, Get(q.state.pending), q.bar_open))) =>
                  /\ q.result.pc = "evaluate"
                  /\ Len(q.result.trades) = Len(q.state.trades) + 1
                  /\ IsNone(q.result.pending)

\* The fill step was called for a reversal with an entry price but no entry
\* bar stored and a trade already in the ledger, and failed.
C26_Witness ==
    /\ ~IsNone(probe)
    /\ Get(probe).fn = "_execute_pending"
    /\ ~IsNone(Get(probe).state.entry_price)
    /\ IsNone(Get(probe).state.entry_bar)
    /\ ~IsNone(Get(Get(probe).state.pending).open_direction)
    /\ Len(Get(probe).state.trades) = 1
    /\ Get(probe).result.pc = "failed"
    /\ Get(probe).result.trades = Get(probe).state.trades

\* ------------------------------------------------------------------------
\* C27: frame of the non-fill steps.  The position, the entry price and bar
\* and the ledger change only in the fill step and in the end-of-data close,
\* where each executed leg moves the position exactly once (a close leg from
\* the held direction to FLAT, an open leg from FLAT to its direction); roll
\* handling, the freeze decrement and signal evaluation change only the
\* pending order and the freeze counter (signal evaluation also returns its
\* Action), and the fill step never changes the freeze counter.
\* ------------------------------------------------------------------------
\* The position after the legs log[n+1..] are applied to position pos, or
\* "invalid" when a leg does not fit the position it meets.
RECURSIVE C27_AfterLegs(_, _, _)
C27_AfterLegs(pos, log, n) ==
    IF n >= Len(log) THEN pos
    ELSE LET f == log[n + 1]
         IN  IF f.leg = "close"
             THEN IF pos # FLAT /\ f.direction = -pos
                  THEN C27_AfterLegs(FLAT, log, n + 1) ELSE "invalid"
             ELSE IF pos = FLAT /\ f.direction # FLAT
                  THEN C27_AfterLegs(f.direction, log, n + 1) ELSE "invalid"

C27_FrameOfSteps ==
    [][ /\ pc = "evaluate" =>
              /\ UNCHANGED <<current_direction, entry_bar_index, entry_price, entry_bar,
                             trades, next_id, fills, bars, signals>>
              /\ (~IsRollBar(CurBar) /\ InFreeze(roll_freeze_remaining)) =>
                     UNCHANGED <<pending, action>>
              /\ IsRollBar(CurBar) => action' = action
        /\ Len(bars') = Len(bars) + 1 =>
              UNCHANGED <<roll_freeze_remaining, action>>
        /\ (\/ current_direction' # current_direction
            \/ entry_bar_index' # entry_bar_index
            \/ entry_price' # entry_price
            \/ entry_bar' # entry_bar
            \/ trades' # trades
            \/ next_id' # next_id) =>
              /\ pc = "execute"
              /\ Len(fills') > Len(fills)
              /\ \/ Len(bars') = Len(bars) + 1 /\ ~IsNone(pending)
                 \/ Len(bars') = Len(bars) /\ pc' = "done"
        /\ \A k \in 1..Len(fills) : fills'[k] = fills[k]
        /\ current_direction' = C27_AfterLegs(current_direction, fills', Len(fills))
      ]_vars

\* A reversal has been filled and the bar's signal then evaluated: two legs
\* moved the position in one step, and signal evaluation queued the next
\* reversal and left the position as the fill step made it.
C27_Witness ==
    /\ pc = "execute"
    /\ Len(bars) >= 1
    /\ ~IsRollBar(CurBar)
    /\ Len(fills) >= 3
    /\ fills[Len(fills)].bar = CurBar
    /\ fills[Len(fills)].leg = "open"
    /\ fills[Len(fills) - 1].bar = CurBar
    /\ current_direction = fills[Len(fills)].direction
    /\ ~IsNone(pending)
    /\ Get(pending).exit_reason = "signal"
    /\ Get(pending).signal_bar = CurBar

\* ------------------------------------------------------------------------
\* C28: append-only ledger.  A step appends one trade for each close leg it
\* executes, the end-of-data close included, and none for an open leg; the
\* ledger before a step is a prefix of the ledger after it, trade for trade
\* and field for field; so the ledger holds as many trades as close legs
\* were executed.
\* ------------------------------------------------------------------------
C28_AppendOnlyLedger ==
    [][ /\ Len(trades') = Len(trades) + (ClosesIn(fills', Len(fills')) - ClosesIn(fills, Len(fills)))
        /\ Len(trades') - Len(trades) \in {0, 1}
        /\ \A k \in 1..Len(trades) : trades'[k] = trades[k]
        /\ Len(trades) = ClosesIn(fills, Len(fills))
        /\ (Len(fills') > Len(fills) /\ \A k \in (Len(fills) + 1)..Len(fills') :
                                           fills'[k].leg = "open") => trades' = trades
      ]_vars

\* The ledger holds a trade closed by a reversal, whose open leg added no
\* trade, and a later trade appended behind it.
C28_Witness ==
    /\ Len(trades) >= 2
    /\ \E k \in 1..(Len(fills) - 1) :
          /\ fills[k].leg = "close"
          /\ fills[k + 1].leg = "open"
          /\ fills[k + 1].bar = fills[k].bar
    /\ trades[1].exit_bar < trades[2].exit_bar
    /\ OpensIn(fills, Len(fills)) = 2

\* ------------------------------------------------------------------------
\* C29: entry bar index.  While a position is open the PositionManager's
\* entry_bar_index is the index of the bar at which the position was opened,
\* the bar of its open fill, and it is -1 whenever the position is FLAT.
\* ------------------------------------------------------------------------
C29_EntryBarIndex ==
    /\ current_direction = FLAT => entry_bar_index = -1
    /\ current_direction # FLAT =>
           /\ Len(fills) >= 1
           /\ fills[Len(fills)].leg = "open"
           /\ entry_bar_index = fills[Len(fills)].bar

\* ------------------------------------------------------------------------
\* C30 as stated: round_to_tick returns the multiple of tick_size nearest to
\* its input, an already valid tick price unchanged, and a price exactly
\* halfway between two valid ticks rounded to the one farther from zero.
\* ------------------------------------------------------------------------
C30_Distance(a, b) == IF a >= b THEN a - b ELSE b - a

C31_SignalCloseRecord(t) ==
    build_trade(settings, t.trade_id, t.direction, t.entry_bar, t.exit_bar, t.entry_price,
                round_to_tick(Get(CloseFill(settings,
                        PendingOrder(Some(t.direction), Some(-t.direction),
                                     t.exit_bar - 1, "signal"),
                        BarOpen(t.exit_bar)))))

C31_EndOfDataTag ==
    (pc = "done" /\ HasFill("close", "end")) =>
        trades[Len(trades)] # C31_SignalCloseRecord(trades[Len(trades)])

\* ------------------------------------------------------------------------
\* C32: the pending order is consistent with the position.  Whenever a
\* pending order exists, its close leg names the current, non-FLAT position
\* direction and the entry price and bar are stored; an order with an open
\* leg alone exists only while the position is FLAT; the open leg of a
\* two-leg order is the negation of its close leg; so neither the missing
\* entry assertion nor the FLAT direction error is reachable.
\* ------------------------------------------------------------------------
C32_Consistent(o, position, e_price, e_bar) ==
    /\ ~IsNone(o.close_direction) =>
           /\ Get(o.close_direction) = position
           /\ position # FLAT
           /\ ~IsNone(e_price)
           /\ ~IsNone(e_bar)
    /\ (IsNone(o.close_direction) /\ ~IsNone(o.open_direction)) =>
           /\ position = FLAT
           /\ Get(o.open_direction) # FLAT
    /\ (~IsNone(o.close_direction) /\ ~IsNone(o.open_direction)) =>
           Get(o.open_direction) = -Get(o.close_direction)

C32_PendingConsistentAlways ==
    ~IsNone(pending) => C32_Consistent(Get(pending), current_direction, entry_price, entry_bar)

\* C32 amended: the same consistency in every state of the bar loop, that
\* is, before the end-of-data close; a run whose settings define every value
\* it reads never fails.
C32_PendingConsistentInLoop ==
    /\ (pc # "done" /\ ~IsNone(pending)) =>
           C32_Consistent(Get(pending), current_direction, entry_price, entry_bar)
    /\ settings = CompleteSettings => pc # "failed"

\* A reversal order is queued while a position is open, and an earlier
\* order of the run has been filled.
C32_Witness ==
    /\ pc = "execute"
    /\ ~IsNone(pending)
    /\ ~IsNone(Get(pending).close_direction)
    /\ ~IsNone(Get(pending).open_direction)
    /\ Get(pending).close_direction = Some(current_direction)
    /\ HasFill("open", "signal")

\* ------------------------------------------------------------------------
\* C33: flat during the freeze.  On every non-roll bar processed while the
\* freeze counter is positive, the position is FLAT after the bar's fill
\* step and no pending order exists at the end of the bar (the freeze step
\* leaves the slot as the fill step left it).
\* ------------------------------------------------------------------------
C33_FlatDuringFreeze ==
    (pc = "evaluate" /\ ~IsRollBar(CurBar) /\ InFreeze(roll_freeze_remaining)) =>
        /\ current_direction = FLAT
        /\ IsNone(pending)
        /\ IsNone(entry_price)

\* A freeze bar whose fill step has executed the roll close of a position.
C33_Witness ==
    /\ pc = "evaluate"
    /\ ~IsRollBar(CurBar)
    /\ InFreeze(roll_freeze_remaining)
    /\ \E k \in 1..Len(fills) :
          fills[k].bar = CurBar /\ fills[k].leg = "close" /\ fills[k].reason = "roll"

\* ------------------------------------------------------------------------
\* C34: no position outlives a roll by more than one bar.  If the position
\* is open after the fill step of a roll bar r and r is not the final bar,
\* the fill step of bar r+1 closes it (its trade has exit_bar = r+1) and
\* opens nothing; so for every trade and every roll bar r with
\* entry_bar <= r, exit_bar <= r+1.
\* ------------------------------------------------------------------------
C34_OpenAfterFillStep(j) ==
    Cardinality({k \in 1..Len(fills) : fills[k].bar <= j /\ fills[k].leg = "open"})
        > Cardinality({k \in 1..Len(fills) : fills[k].bar <= j /\ fills[k].leg = "close"})

C34_ClosedOneBarAfterRoll ==
    /\ \A r \in 0..(CurBar - 1) :
          (IsRollBar(r) /\ C34_OpenAfterFillStep(r)) =>
              /\ \E k \in 1..Len(fills) :
                    /\ fills[k].bar = r + 1
                    /\ fills[k].leg = "close"
                    /\ fills[k].reason = "roll"
              /\ \E n \in 1..Len(trades) :
                    trades[n].entry_bar <= r /\ trades[n].exit_bar = r + 1
              /\ ~\E k \in 1..Len(fills) : fills[k].bar = r + 1 /\ fills[k].leg = "open"
              /\ ~C34_OpenAfterFillStep(r + 1)
    /\ \A n \in 1..Len(trades) : \A r \in 0..CurBar :
          (IsRollBar(r) /\ trades[n].entry_bar <= r) => trades[n].exit_bar <= r + 1

\* A position opened before a roll bar, still open after the roll bar's
\* fill step, has been closed with the roll tag by the fill step of the
\* next bar.
C34_Witness ==
    \E r \in 1..(CurBar - 1) :
        /\ IsRollBar(r)
        /\ C34_OpenAfterFillStep(r)
        /\ \E n \in 1..Len(trades) :
              trades[n].entry_bar < r /\ trades[n].exit_bar = r + 1
        /\ \E k \in 1..Len(fills) :
              fills[k].bar = r + 1 /\ fills[k].leg = "close" /\ fills[k].reason = "roll"

\* ------------------------------------------------------------------------
\* C35: the order of the final bar is never filled.  An order queued on the
\* final bar is not executed and is the pending order of the returned state;
\* the ledger of a run that returns is the same whatever the signal value
\* and the roll flag of the final bar are.
\* ------------------------------------------------------------------------
\* The position held when the loop ended, read from the end-of-data close.
C35_PositionAtLoopEnd ==
    IF Len(fills) > 0 /\ fills[Len(fills)].reason = "end"
    THEN -fills[Len(fills)].direction
    ELSE FLAT

\* The order the final bar queues for that position.
C35_FinalBarOrder ==
    IF IsRollBar(CurBar)
    THEN IF C35_PositionAtLoopEnd # FLAT
         THEN Some(RollOrder(C35_PositionAtLoopEnd, CurBar))
         ELSE None
    ELSE IF SkippedBar(settings, bars, CurBar)
    THEN None
    ELSE SignalOrder(evaluate_signal(C35_PositionAtLoopEnd, SignalAt(CurBar)),
                     C35_PositionAtLoopEnd, CurBar)

C35_FinalBarOrderNeverFilled ==
    (pc = "done" /\ Len(bars) >= 1) =>
        /\ pending = C35_FinalBarOrder
        /\ \A k \in 1..Len(fills) : fills[k].signal_bar # Some(CurBar)
        /\ ~IsNone(second) => Get(second).final.ledgers = {trades}

\* A run that ended with an open position and a reversal queued on its
\* final bar, compared with later runs whose final bars queue a roll close,
\* a reversal and nothing.
C35_Witness ==
    /\ pc = "done"
    /\ Len(bars) >= 2
    /\ ~IsNone(second)
    /\ ~IsNone(pending)
    /\ Get(pending).signal_bar = CurBar
    /\ ~IsNone(Get(pending).close_direction)
    /\ ~IsNone(Get(pending).open_direction)
    /\ Len(trades) >= 1
    /\ Get(second).final.ledgers = {trades}
    /\ Cardinality(Get(second).final.pendings) = 3
    /\ None \in Get(second).final.pendings
    /\ \E o \in Get(second).final.pendings : ~IsNone(o) /\ Get(o).exit_reason = "roll"

\* ------------------------------------------------------------------------
\* C36: entry precedes exit.  Every trade has entry_bar not later than
\* exit_bar; the two are equal only for a trade closed by the end-of-data
\* close whose position was opened by the fill step of the final bar; every
\* trade closed by a pending order has exit_bar strictly later than
\* entry_bar.
\* ------------------------------------------------------------------------
C36_EntryPrecedesExit ==
    \A n \in 1..Len(trades) :
        LET t == trades[n]
            closing == NthClose(n)
            opening == NthOpen(n)
        IN  /\ t.entry_bar <= t.exit_bar
            /\ t.entry_bar = opening.bar
            /\ t.exit_bar = closing.bar
            /\ t.entry_bar = t.exit_bar =>
                   /\ closing.reason = "end"
                   /\ n = Len(trades)
                   /\ opening.bar = CurBar
            /\ closing.reason \in {"signal", "roll"} => t.entry_bar < t.exit_bar

\* A returned run whose last trade was opened by the fill step of the final
\* bar and closed by the end-of-data close, after a trade closed by an order.
C36_Witness ==
    /\ pc = "done"
    /\ Len(trades) >= 2
    /\ trades[Len(trades)].entry_bar = trades[Len(trades)].exit_bar
    /\ trades[Len(trades)].exit_bar = CurBar
    /\ trades[1].entry_bar < trades[1].exit_bar

C38_RollFreezeBars ==
    IF HasSetting(settings, "ROLL_FREEZE_BARS_POST")
    THEN settings["ROLL_FREEZE_BARS_POST"]
    ELSE 0

C38_FreezeCounterBounds ==
    /\ roll_freeze_remaining \in 0..C38_RollFreezeBars
    /\ (pc \in {"execute", "done"} /\ Len(bars) >= 1 /\ IsRollBar(CurBar)) =>
           roll_freeze_remaining = C38_RollFreezeBars

\* Two roll bars in a row: the second is met while the freeze of the first
\* is active, and has been processed.
C38_Witness ==
    /\ pc = "execute"
    /\ Len(bars) >= 2
    /\ IsRollBar(CurBar)
    /\ IsRollBar(CurBar - 1)
    /\ roll_freeze_remaining = ROLL_FREEZE_BARS_POST
    /\ roll_freeze_remaining > 0

\* ------------------------------------------------------------------------
\* C39: signals never flatten the position.  An order queued by signal
\* evaluation never consists of a close leg alone; a position that was
\* opened is FLAT again only after a close tagged as a roll close, executed
\* on the bar after a roll bar, or after the end-of-data close; so between
\* an entry and the next roll bar or the end of the stream the position is
\* never FLAT at the end of a bar.
\* ------------------------------------------------------------------------
C39_SignalsNeverFlatten ==
    /\ (~IsNone(pending) /\ Get(pending).exit_reason = "signal") =>
           ~IsNone(Get(pending).open_direction)
    /\ \A k \in 1..Len(fills) :
          (fills[k].leg = "close" /\ fills[k].reason = "signal") =>
              /\ k < Len(fills)
              /\ fills[k + 1].leg = "open"
              /\ fills[k + 1].bar = fills[k].bar
          \* a roll close is executed on the bar after a roll bar
    /\ \A k \in 1..Len(fills) :
          (fills[k].leg = "close" /\ fills[k].reason = "roll") =>
              (fills[k].bar >= 1 /\ IsRollBar(fills[k].bar - 1))
    /\ (pc # "failed" /\ Len(fills) > 0 /\ current_direction = FLAT) =>
           /\ fills[Len(fills)].leg = "close"
           /\ fills[Len(fills)].reason \in {"roll", "end"}
           /\ fills[Len(fills)].reason = "end" => pc = "done"

\* A position entered on bar 1 is still held, reversed once, at the end of
\* the last bar of a stream without roll bars, whose signals include 0.
C39_Witness ==
    /\ pc = "execute"
    /\ Len(bars) = MaxBars
    /\ \A k \in 1..Len(bars) : ~bars[k].contains_roll
    /\ \E k \in 2..Len(signals) : signals[k] = 0
    /\ HasFill("close", "signal")
    /\ current_direction # FLAT
    /\ fills[1].bar = 1

====
